---- MODULE Spec2Model ----
(***************************************************************************)
(* Pixie-ZKVM: the preflight simulator (src/src/preflight_simulator.rs)    *)
(* over the ISA of src/src/vm_specs.rs, the trace generators               *)
(* (stark_cpu.rs, stark_memory.rs, stark_program_instructions.rs) and the  *)
(* proof session generate_proof (stark_pixie_zkvm.rs), as a state machine. *)
(*                                                                         *)
(* One behaviour is one build of the crate running generate_proof, and in  *)
(* it PreflightSimulation::simulate, twice on one Program.  The state is   *)
(* the local trace_rows vector of simulate, the position of simulate in    *)
(* its body, what it returned, and the locals of generate_proof.           *)
(***************************************************************************)
EXTENDS Integers, Sequences, FiniteSets, TLC

VARIABLES
    prog,             \* the &Program handed to simulate
    overflow_checks,  \* build profile: TRUE = `+` on u8 panics on overflow (debug)
    run,              \* 1 or 2: which call of simulate is in progress
    pc,               \* position in simulate: "start", "loop", "done"
    trace_rows,       \* the local `trace_rows` Vec of simulate
    result,           \* "none" while running, else how simulate ended
    sim,              \* the PreflightSimulation returned, NoSim if none
    first_run,        \* outcome of the first call, NoOutcome before it ends
    gp,               \* position in generate_proof: "simulate", "observe", "sample", "done"
    traces,           \* the tables generated so far: pi_trace, cpu_trace, mem_trace
    caps,             \* the Merkle caps committed so far: pi, cpu, mem
    observed,         \* the caps the challenger has observed, in order
    challenges,       \* the number of challenges sampled from the challenger
    proof_result      \* "none" while generate_proof runs, else how it ended

proof_vars == <<gp, traces, caps, observed, challenges, proof_result>>

vars ==
    <<prog, overflow_checks, run, pc, trace_rows, result, sim, first_run, gp,
      traces, caps, observed, challenges, proof_result>>

(***************************************************************************)
(* Bounds of the model                                                     *)
(***************************************************************************)

\* The cycle cap of simulate.  The source sets 1_000; the model runs the
\* same loop guard against a small cap so that the cap is reached.
MAX_CPU_CYCLES_ALLOWED == 6

(***************************************************************************)
(* vm_specs.rs                                                             *)
(***************************************************************************)

REGISTER_COUNT == 2

Registers == 0 .. (REGISTER_COUNT - 1)

U8 == 0 .. 255

ArithOps == {"Add", "Sub", "Mul", "Div", "Shl", "Shr"}
JumpOps  == {"Jz", "Jnz"}
MemOps   == {"Lb", "Sb"}

\* Instruction: op(a, b).  a is a register; b is a register for the
\* arithmetic and shift variants, an InstructionLocation for the jumps, a
\* MemoryLocation for Lb and Sb.  Halt has no operands (a = b = 0).
Instr(op, a, b) == [op |-> op, a |-> a, b |-> b]

Halt == Instr("Halt", 0, 0)

\* Addresses the modelled programs name.
InstLocs == {2, 4, 7}
MemLocs  == {64, 66}

Instructions ==
    {Instr(op, a, b) : op \in ArithOps, a \in Registers, b \in Registers}
    \cup {Instr(op, a, l) : op \in JumpOps, a \in Registers, l \in InstLocs}
    \cup {Instr(op, a, m) : op \in MemOps, a \in Registers, m \in MemLocs}
    \cup {Halt}

\* HashMap helpers: a map is a function on the set of its keys.
EmptyMap == [k \in {} |-> 0]

MapGet(m, k, default) == IF k \in DOMAIN m THEN m[k] ELSE default

MapInsert(m, k, v) == [x \in (DOMAIN m) \cup {k} |-> IF x = k THEN v ELSE m[x]]

Program(entry_point, code, memory_init) ==
    [entry_point |-> entry_point, code |-> code, memory_init |-> memory_init]

(***************************************************************************)
(* preflight_simulator.rs: SimulationRow                                   *)
(***************************************************************************)

SimulationRow(instruction, clock, program_counter, is_halted, registers, memory) ==
    [instruction |-> instruction, clock |-> clock,
     program_counter |-> program_counter, is_halted |-> is_halted,
     registers |-> registers, memory_snapshot |-> memory]

\* Outcomes of a fallible call: Ok(row), Err(message), or a panic (abort).
OkRow(row)  == [kind |-> "Ok", row |-> row]
ErrRow(msg) == [kind |-> "Err", msg |-> msg]
PanicRow    == [kind |-> "Panic"]

\* u8 arithmetic of the standard library, as used by execute_one_cycle.
Pow2(n) == IF n = 0 THEN 1 ELSE IF n = 1 THEN 2 ELSE IF n = 2 THEN 4
           ELSE IF n = 3 THEN 8 ELSE IF n = 4 THEN 16 ELSE IF n = 5 THEN 32
           ELSE IF n = 6 THEN 64 ELSE 128

SaturatingAdd(x, y) == IF x + y > 255 THEN 255 ELSE x + y

WrappingAdd(x, y) == (x + y) % 256
WrappingSub(x, y) == (x - y) % 256
WrappingMul(x, y) == (x * y) % 256
\* wrapping_div panics on a zero divisor; callers guard with DivideByZero.
WrappingDiv(x, y) == x \div y
\* wrapping_shl / wrapping_shr mask the amount to the bit width (8).
ShlUnmasked(x, n) == IF n >= 8 THEN 0 ELSE (x * Pow2(n)) % 256

WrappingShl(x, n) == (x * Pow2(n % 8)) % 256

WrappingShr(x, n) == x \div Pow2(n % 8)

\* `registers: [0; REGISTER_COUNT]` of generate_first_row (line 63).
FirstRowRegistersStale ==
    IF run = 2 /\ first_run.sim.trace_rows # <<>>
    THEN first_run.sim.trace_rows[Len(first_run.sim.trace_rows)].registers
    ELSE [r \in Registers |-> 0]

FirstRowRegisters == [r \in Registers |-> 0]

\* generate_first_row: the row at the entry point, clock 1, not halted.

GenerateFirstRow(p) ==
    IF p.entry_point \notin DOMAIN p.code
    THEN ErrRow("instruction not found")
    ELSE OkRow(SimulationRow(p.code[p.entry_point], 1, p.entry_point, FALSE,
                             FirstRowRegisters, p.memory_init))

\* `self.program_counter + 1` on u8 (line 76): overflows from 255.
PcIncrementOverflows(row) == row.program_counter + 1 > 255

\* `wrapping_div` with a zero divisor (lines 103-106).
DivideByZero(row) ==
    /\ row.instruction.op = "Div"
    /\ row.registers[row.instruction.b] = 0

\* Lb: `memory_snapshot.get(&memloc.0).copied().unwrap_or_default()`.
LoadByteKeepsGarbage(memory, addr) == MapGet(memory, addr, 255)

LoadByte(memory, addr) == MapGet(memory, addr, 0)

\* Sb: `entry(memloc.0).and_modify(|elem| *elem = value).or_insert(value)`.
StoreByteNoInsert(memory, addr, value) ==
    IF addr \in DOMAIN memory THEN MapInsert(memory, addr, value) ELSE memory

StoreByte(memory, addr, value) == MapInsert(memory, addr, value)

\* The register file after the match on self.instruction (lines 79-140).
NextRegisters(row) ==
    LET i == row.instruction
        regs == row.registers
        Set(v) == [regs EXCEPT ![i.a] = v]
    IN  CASE i.op = "Add" -> Set(WrappingAdd(regs[i.a], regs[i.b]))
          [] i.op = "Sub" -> Set(WrappingSub(regs[i.a], regs[i.b]))
          [] i.op = "Mul" -> Set(WrappingMul(regs[i.a], regs[i.b]))
          [] i.op = "Div" -> Set(WrappingDiv(regs[i.a], regs[i.b]))
          [] i.op = "Shl" -> Set(WrappingShl(regs[i.a], regs[i.b]))
          [] i.op = "Shr" -> Set(WrappingShr(regs[i.a], regs[i.b]))
          [] i.op = "Lb"  -> Set(LoadByte(row.memory_snapshot, i.b))
          [] OTHER        -> regs

\* The memory snapshot after the match: only Sb writes (lines 132-137).
NextMemoryLoadInserts(row) ==
    LET i == row.instruction
    IN  IF i.op = "Sb"
        THEN StoreByte(row.memory_snapshot, i.b, row.registers[i.a])
        ELSE IF i.op = "Lb" /\ i.b \notin DOMAIN row.memory_snapshot
        THEN MapInsert(row.memory_snapshot, i.b, 0)
        ELSE row.memory_snapshot

NextMemory(row) ==
    LET i == row.instruction
    IN  IF i.op = "Sb"
        THEN StoreByte(row.memory_snapshot, i.b, row.registers[i.a])
        ELSE row.memory_snapshot

\* The program counter after the match: current + 1 (wrapping when the
\* build does not check overflow), overridden by a taken jump.
NextProgramCounter(row) ==
    LET i == row.instruction
    IN  IF i.op = "Jz" /\ row.registers[i.a] = 0 THEN i.b
        ELSE IF i.op = "Jnz" /\ row.registers[i.a] # 0 THEN i.b
        ELSE (row.program_counter + 1) % 256

\* lines 142-146: `prog.code.get(&program_counter)`, the instruction the code
\* map holds at the new program counter.
FetchInstructionBefore(p, program_counter) ==
    IF program_counter - 1 \in DOMAIN p.code
    THEN p.code[program_counter - 1] ELSE p.code[program_counter]

FetchInstruction(p, program_counter) == p.code[program_counter]

\* line 77: `clock: self.clock + 1`.
NextClockStuck(row) == row.clock

NextClock(row) == row.clock + 1

\* execute_one_cycle(&self, prog), in a build with or without overflow checks.
ExecuteOneCycle(row, p, checks) ==
    IF checks /\ PcIncrementOverflows(row) THEN PanicRow
    ELSE IF DivideByZero(row) THEN PanicRow
    ELSE LET program_counter == NextProgramCounter(row)
         IN  IF program_counter \notin DOMAIN p.code
             THEN ErrRow("instruction not found")
             ELSE LET instruction == FetchInstruction(p, program_counter)
                  IN  OkRow(SimulationRow(instruction, NextClock(row),
                                          program_counter, instruction = Halt,
                                          NextRegisters(row), NextMemory(row)))

(***************************************************************************)
(* preflight_simulator.rs: PreflightSimulation                             *)
(***************************************************************************)

PreflightSimulationLastSnapshot(memory_init, rows) ==
    [memory_init |-> IF rows = <<>> THEN memory_init ELSE rows[Len(rows)].memory_snapshot,
     trace_rows |-> rows]

PreflightSimulation(memory_init, rows) ==
    [memory_init |-> memory_init, trace_rows |-> rows]

NoSim == [memory_init |-> EmptyMap, trace_rows |-> <<>>, none |-> TRUE]

Outcome(res, s) == [result |-> res, sim |-> s]

NoOutcome == Outcome("none", NoSim)

LastRow == trace_rows[Len(trace_rows)]

\* The guard of the while loop of simulate (lines 208-209).
LoopGuardIgnoresHalt == Len(trace_rows) <= MAX_CPU_CYCLES_ALLOWED

LoopGuard ==
    /\ Len(trace_rows) <= MAX_CPU_CYCLES_ALLOWED
    /\ ~LastRow.is_halted

\* What simulate returns for an empty code map (lines 196-201).
EmptySimulationDefaultMemory(p) == PreflightSimulation(EmptyMap, <<>>)

EmptySimulation(p) == PreflightSimulation(p.memory_init, <<>>)

\* Leaving simulate: the local vector is moved out or dropped.
Return(res, s) ==
    /\ pc' = "done"
    /\ result' = res
    /\ sim' = s
    /\ trace_rows' = <<>>
    /\ UNCHANGED <<prog, overflow_checks, run, first_run>>
    /\ UNCHANGED proof_vars

\* lines 192-202: empty code map, return at once.
SimulateEmpty ==
    /\ pc = "start"
    /\ DOMAIN prog.code = {}
    /\ Return("Ok", EmptySimulation(prog))

\* lines 203-206: the first row is generated and pushed.
SimulateFirstRow ==
    /\ pc = "start"
    /\ DOMAIN prog.code # {}
    /\ GenerateFirstRow(prog).kind = "Ok"
    /\ trace_rows' = <<GenerateFirstRow(prog).row>>
    /\ pc' = "loop"
    /\ UNCHANGED <<prog, overflow_checks, run, result, sim, first_run>>
    /\ UNCHANGED proof_vars

\* line 205: `?` on a failed generate_first_row.
SimulateFirstRowFails ==
    /\ pc = "start"
    /\ DOMAIN prog.code # {}
    /\ GenerateFirstRow(prog).kind = "Err"
    /\ Return("InstructionNotFound", NoSim)

\* lines 208-214: one iteration of the loop that pushes a row.
SimulateCycleInPlace ==
    /\ pc = "loop"
    /\ LoopGuard
    /\ ExecuteOneCycle(LastRow, prog, overflow_checks).kind = "Ok"
    /\ LET new == ExecuteOneCycle(LastRow, prog, overflow_checks).row
       IN  trace_rows' =
               Append([trace_rows EXCEPT ![Len(trace_rows)].registers = new.registers,
                                         ![Len(trace_rows)].memory_snapshot = new.memory_snapshot],
                      new)
    /\ UNCHANGED <<prog, overflow_checks, run, pc, result, sim, first_run>>
    /\ UNCHANGED proof_vars

SimulateCycle ==
    /\ pc = "loop"
    /\ LoopGuard
    /\ ExecuteOneCycle(LastRow, prog, overflow_checks).kind = "Ok"
    /\ trace_rows' =
           Append(trace_rows, ExecuteOneCycle(LastRow, prog, overflow_checks).row)
    /\ UNCHANGED <<prog, overflow_checks, run, pc, result, sim, first_run>>
    /\ UNCHANGED proof_vars

\* line 212: `?` on a failed execute_one_cycle.
SimulateCycleFails ==
    /\ pc = "loop"
    /\ LoopGuard
    /\ ExecuteOneCycle(LastRow, prog, overflow_checks).kind = "Err"
    /\ Return("InstructionNotFound", NoSim)

\* lines 76, 103-106: execute_one_cycle panics, the process aborts.
SimulateCyclePanics ==
    /\ pc = "loop"
    /\ LoopGuard
    /\ ExecuteOneCycle(LastRow, prog, overflow_checks).kind = "Panic"
    /\ Return("Panic", NoSim)

\* What simulate returns once the loop is left (lines 216-227).
LoopExitOutcomeUnchecked ==
    Outcome("Ok", PreflightSimulation(prog.memory_init, trace_rows))

LoopExitOutcome ==
    IF ~LastRow.is_halted
    THEN Outcome("CycleLimitExceeded", NoSim)
    ELSE Outcome("Ok", PreflightSimulation(prog.memory_init, trace_rows))

SimulateLoopExit ==
    /\ pc = "loop"
    /\ ~LoopGuard
    /\ Return(LoopExitOutcome.result, LoopExitOutcome.sim)

(***************************************************************************)
(* vm_specs.rs: opcodes                                                    *)
(***************************************************************************)

\* Instruction::get_opcode, as vm_specs.rs numbers its variants.
GetOpcodeHaltAsSb(i) ==
    CASE i.op = "Add" -> 0
      [] i.op = "Sub" -> 1
      [] i.op = "Mul" -> 2
      [] i.op = "Div" -> 3
      [] i.op = "Shl" -> 4
      [] i.op = "Shr" -> 5
      [] i.op = "Lb"  -> 6
      [] i.op = "Sb"  -> 7
      [] i.op = "Halt" -> 7

GetOpcode(i) ==
    CASE i.op = "Add" -> 0
      [] i.op = "Sub" -> 1
      [] i.op = "Mul" -> 2
      [] i.op = "Div" -> 3
      [] i.op = "Shl" -> 4
      [] i.op = "Shr" -> 5
      [] i.op = "Lb"  -> 6
      [] i.op = "Sb"  -> 7
      [] i.op = "Halt" -> 8

\* The Jz and Jnz variants that preflight_simulator.rs and stark_cpu.rs use
\* are not declared in vm_specs.rs: their opcodes continue the numbering
\* ("contiguously from zero", one per variant).
JumpOpcode(i) == IF i.op = "Jz" THEN 9 ELSE 10

OpcodeIndex(i) == IF i.op \in JumpOps THEN JumpOpcode(i) ELSE GetOpcode(i)

(***************************************************************************)
(* Tables.  A table is the sequence of its rows; a field element made by   *)
(* from_canonical_u8 / from_canonical_u32 is the number it was made from.  *)
(***************************************************************************)

\* usize::next_power_of_two: the least power of two >= n (1 for 0).
RECURSIVE PowerOfTwoFrom(_, _)
PowerOfTwoFrom(p, n) == IF p >= n THEN p ELSE PowerOfTwoFrom(2 * p, n)

NextPowerOfTwo(n) == PowerOfTwoFrom(1, n)

\* `trace.resize(pow2_len, [F::ZERO; NUMBER_OF_COLS])`.
ResizeNoPadding(rows, zero_row) == rows

ResizeToPowerOfTwo(rows, zero_row) ==
    rows \o [k \in 1 .. (NextPowerOfTwo(Len(rows)) - Len(rows)) |-> zero_row]

\* The order in which a HashMap iterates over its keys is not fixed by its
\* contents; the model takes the keys ascending or descending.
HashOrders == {"ascending", "descending"}

RECURSIVE Ascending(_)
Ascending(keys) ==
    IF keys = {} THEN <<>>
    ELSE LET least == CHOOSE k \in keys : \A other \in keys : k <= other
         IN  <<least>> \o Ascending(keys \ {least})

Reverse(seq) == [k \in 1 .. Len(seq) |-> seq[Len(seq) + 1 - k]]

IterationOrder(keys, order) ==
    IF order = "ascending" THEN Ascending(keys) ELSE Reverse(Ascending(keys))

(***************************************************************************)
(* stark_program_instructions.rs: the Program-Instructions table           *)
(***************************************************************************)

ProgramInstructionsRow(addr, instruction) ==
    [pc |-> addr, opcode |-> OpcodeIndex(instruction), is_real |-> 1]

ProgramInstructionsPadding == [pc |-> 0, opcode |-> 0, is_real |-> 0]

\* ProgramInstructionsStark::generate_trace(prog): one row per code-map entry.
ProgramInstructionsGenerateTrace(p, order) ==
    LET addrs == IterationOrder(DOMAIN p.code, order)
    IN  ResizeToPowerOfTwo(
            [k \in 1 .. Len(addrs) |-> ProgramInstructionsRow(addrs[k], p.code[addrs[k]])],
            ProgramInstructionsPadding)

(***************************************************************************)
(* stark_cpu.rs: the CPU table                                             *)
(***************************************************************************)

NUM_OPCODE_ONEHOT == 11

OpcodeColumns == 0 .. (NUM_OPCODE_ONEHOT - 1)

\* Instruction::one_hot_encode_and_apply: the column of the opcode is one.
OneHotEncodeAndApply(instruction) ==
    [c \in OpcodeColumns |-> IF c = OpcodeIndex(instruction) THEN 1 ELSE 0]

\* "Memory Address (if any accessed)" (lines 88-94).
CpuLocationMemoryOnly(instruction) ==
    IF instruction.op \in {"Lb", "Sb"} THEN instruction.b ELSE 0

CpuLocation(instruction) ==
    IF instruction.op \in {"Jz", "Jnz", "Lb", "Sb"} THEN instruction.b ELSE 0

CpuTableRow(row) ==
    [clk |-> row.clock, pc |-> row.program_counter,
     r0 |-> row.registers[0], r1 |-> row.registers[1],
     loc |-> CpuLocation(row.instruction),
     opcode |-> OneHotEncodeAndApply(row.instruction),
     is_exec |-> 1]

CpuPadding ==
    [clk |-> 0, pc |-> 0, r0 |-> 0, r1 |-> 0, loc |-> 0,
     opcode |-> [c \in OpcodeColumns |-> 0], is_exec |-> 0]

\* CPUStark::generate_trace(sim).
CpuGenerateTrace(s) ==
    ResizeToPowerOfTwo(
        [k \in 1 .. Len(s.trace_rows) |-> CpuTableRow(s.trace_rows[k])],
        CpuPadding)

(***************************************************************************)
(* stark_memory.rs: the Memory table                                       *)
(***************************************************************************)

MemoryInitRow(addr, value) ==
    [addr |-> addr, clk |-> 0, value |-> value,
     is_lb |-> 0, is_sb |-> 0, is_init |-> 1, is_exec |-> 1]

\* The row pushed for an Lb or Sb row of the simulation (lines 93-126); the
\* value is read from the row's own memory snapshot.
MemoryOpRow(row) ==
    [addr |-> row.instruction.b, clk |-> row.clock,
     value |-> row.memory_snapshot[row.instruction.b],
     is_lb |-> IF row.instruction.op = "Lb" THEN 1 ELSE 0,
     is_sb |-> IF row.instruction.op = "Sb" THEN 1 ELSE 0,
     is_init |-> 0, is_exec |-> 1]

MemoryPadding ==
    [addr |-> 0, clk |-> 0, value |-> 0,
     is_lb |-> 0, is_sb |-> 0, is_init |-> 0, is_exec |-> 0]

IsLoadOnly(row) == row.instruction.op = "Lb"

IsMemOp(row) == row.instruction.op \in MemOps

\* `.expect("execution trace should have value for memop")` (lines 107-110)
\* panics when the address is not in the row's snapshot.
MemoryTracePanics(s) ==
    \E k \in 1 .. Len(s.trace_rows) :
        /\ IsMemOp(s.trace_rows[k])
        /\ s.trace_rows[k].instruction.b \notin DOMAIN s.trace_rows[k].memory_snapshot

\* MemoryStark::generate_trace(sim), when it does not panic.
MemoryGenerateTraceOpsFirst(s, order) ==
    LET addrs == IterationOrder(DOMAIN s.memory_init, order)
        init  == [k \in 1 .. Len(addrs) |-> MemoryInitRow(addrs[k], s.memory_init[addrs[k]])]
        ops   == SelectSeq(s.trace_rows, IsMemOp)
    IN  ResizeToPowerOfTwo(
            [k \in 1 .. Len(ops) |-> MemoryOpRow(ops[k])] \o init,
            MemoryPadding)

MemoryGenerateTrace(s, order) ==
    LET addrs == IterationOrder(DOMAIN s.memory_init, order)
        init  == [k \in 1 .. Len(addrs) |-> MemoryInitRow(addrs[k], s.memory_init[addrs[k]])]
        ops   == SelectSeq(s.trace_rows, IsMemOp)
    IN  ResizeToPowerOfTwo(
            init \o [k \in 1 .. Len(ops) |-> MemoryOpRow(ops[k])],
            MemoryPadding)

(***************************************************************************)
(* stark_pixie_zkvm.rs: generate_proof                                     *)
(***************************************************************************)

\* trace_to_merkle_caps: a binding commitment to the table.
TraceToMerkleCaps(trace) == [merkle_cap_of |-> trace]

NoTrace == <<>>

NoCap == [merkle_cap_of |-> NoTrace]

NoTraces == [pi |-> NoTrace, cpu |-> NoTrace, mem |-> NoTrace]

NoCaps == [pi |-> NoCap, cpu |-> NoCap, mem |-> NoCap]

\* config.num_challenges of StarkConfig::standard_fast_config().
NumChallenges == 2

\* line 90: `?` on a failed simulate (or its panic): generate_proof ends.
SimulationFailedOnlyNotFound == result = "InstructionNotFound"

SimulationFailed == result # "Ok"

ProofSimulationFails ==
    /\ gp = "simulate"
    /\ pc = "done"
    /\ SimulationFailed
    /\ gp' = "done"
    /\ proof_result' = result
    /\ UNCHANGED <<prog, overflow_checks, run, pc, trace_rows, result, sim, first_run>>
    /\ UNCHANGED <<traces, caps, observed, challenges>>

\* lines 93-98: the three tables are generated and committed to.
ProofCommitTraces ==
    /\ gp = "simulate"
    /\ pc = "done"
    /\ ~SimulationFailed
    /\ ~MemoryTracePanics(sim)
    /\ \E order \in HashOrders :
          /\ traces' = [pi  |-> ProgramInstructionsGenerateTrace(prog, order),
                        cpu |-> CpuGenerateTrace(sim),
                        mem |-> MemoryGenerateTrace(sim, order)]
          /\ caps' = [pi  |-> TraceToMerkleCaps(traces'.pi),
                      cpu |-> TraceToMerkleCaps(traces'.cpu),
                      mem |-> TraceToMerkleCaps(traces'.mem)]
    /\ gp' = "observe"
    /\ UNCHANGED <<prog, overflow_checks, run, pc, trace_rows, result, sim, first_run>>
    /\ UNCHANGED <<observed, challenges, proof_result>>

\* line 97: MemoryStark::generate_trace panics after the Program-Instructions
\* and CPU tables were committed to.
ProofMemoryTracePanics ==
    /\ gp = "simulate"
    /\ pc = "done"
    /\ ~SimulationFailed
    /\ MemoryTracePanics(sim)
    /\ \E order \in HashOrders :
          /\ traces' = [pi  |-> ProgramInstructionsGenerateTrace(prog, order),
                        cpu |-> CpuGenerateTrace(sim),
                        mem |-> NoTrace]
          /\ caps' = [pi  |-> TraceToMerkleCaps(traces'.pi),
                      cpu |-> TraceToMerkleCaps(traces'.cpu),
                      mem |-> NoCap]
    /\ gp' = "done"
    /\ proof_result' = "Panic"
    /\ UNCHANGED <<prog, overflow_checks, run, pc, trace_rows, result, sim, first_run>>
    /\ UNCHANGED <<observed, challenges>>

\* lines 106-109: the challenger observes the caps, one call per step.
ObserveOrderCpuFirst == <<"cpu", "pi", "mem">>

ObserveOrder == <<"pi", "cpu", "mem">>

ProofObserveCap ==
    /\ gp = "observe"
    /\ observed' = Append(observed, caps[ObserveOrder[Len(observed) + 1]])
    /\ gp' = IF Len(observed') = Len(ObserveOrder) THEN "sample" ELSE "observe"
    /\ UNCHANGED <<prog, overflow_checks, run, pc, trace_rows, result, sim, first_run>>
    /\ UNCHANGED <<traces, caps, challenges, proof_result>>

\* lines 114-117: `get_n_challenges(2 * config.num_challenges)`, then Ok(()).
ChallengeCountOnePerCheck == NumChallenges

ChallengeCount == 2 * NumChallenges

ProofGetChallenges ==
    /\ gp = "sample"
    /\ challenges' = ChallengeCount
    /\ proof_result' = "Ok"
    /\ gp' = "done"
    /\ UNCHANGED <<prog, overflow_checks, run, pc, trace_rows, result, sim, first_run>>
    /\ UNCHANGED <<traces, caps, observed>>

\* What the caller keeps of the first call: the outcome of simulate and the
\* digests the transcript observed.
FirstRun(res, s, digests) == [result |-> res, sim |-> s, observed |-> digests]

NoFirstRun == FirstRun("none", NoSim, <<>>)

\* The caller runs generate_proof on the same program a second time.
SimulateAgain ==
    /\ pc = "done"
    /\ gp = "done"
    /\ run = 1
    /\ first_run' = FirstRun(result, sim, observed)
    /\ run' = 2
    /\ pc' = "start"
    /\ result' = "none"
    /\ sim' = NoSim
    /\ trace_rows' = <<>>
    /\ gp' = "simulate"
    /\ traces' = NoTraces
    /\ caps' = NoCaps
    /\ observed' = <<>>
    /\ challenges' = 0
    /\ proof_result' = "none"
    /\ UNCHANGED <<prog, overflow_checks>>

(***************************************************************************)
(* The programs simulate is run on                                         *)
(***************************************************************************)

\* HashMap::from_iter over the instructions of a listing placed at 0, 1, ...
CodeOf(listing) == [a \in 0 .. (Len(listing) - 1) |-> listing[a + 1]]

\* Initial memories: the cells 0x40 and 0x41 of the repository's tests
\* (0x20 + 0x45 of test_preflight_add_memory, a wrapping pair, a countdown).
MemoryPairs == {<<32, 69>>, <<250, 10>>, <<2, 1>>}

MemoryInits == {[a \in {64, 65} |-> IF a = 64 THEN xy[1] ELSE xy[2]] : xy \in MemoryPairs}

\* Lb R0 <- 0x40; Lb R1 <- 0x41; two arbitrary instructions; Halt.
ListingPrograms ==
    {Program(0, CodeOf(<<Instr("Lb", 0, 64), Instr("Lb", 1, 65), i1, i2, Halt>>), m) :
        i1 \in Instructions, i2 \in Instructions, m \in MemoryInits}

\* Programs with no code (Program::default(), Scenario B).
EmptyPrograms ==
    {Program(e, EmptyMap, m) :
        e \in {0, 4, 255}, m \in MemoryInits \cup {EmptyMap, [a \in {1} |-> 9]}}

\* Programs whose code sits at the top of the address space.
TopPrograms ==
    {Program(e, [a \in {255, 0} |-> IF a = 255 THEN i ELSE Halt], EmptyMap) :
        e \in {0, 4, 255}, i \in Instructions}
    \cup {Program(255, [a \in {255} |-> i], EmptyMap) : i \in Instructions}

\* Programs of one instruction at address 0.
SinglePrograms ==
    {Program(0, [a \in {0} |-> i], EmptyMap) : i \in Instructions}

\* test_preflight_add_memory (Scenario A): 0x20 + 0x45 stored at 0x42.
ScenarioA ==
    Program(0,
            CodeOf(<<Instr("Lb", 0, 64), Instr("Lb", 1, 65), Instr("Add", 0, 1),
                     Instr("Sb", 0, 66), Halt>>),
            [a \in {64, 65} |-> IF a = 64 THEN 32 ELSE 69])

\* test_max_cpu_cycles (Scenario C): Jz R0 -> 0x00; Halt.
ScenarioC == Program(0, CodeOf(<<Instr("Jz", 0, 0), Halt>>), EmptyMap)

Programs ==
    ListingPrograms \cup EmptyPrograms \cup TopPrograms \cup SinglePrograms
    \cup {ScenarioC}

Init ==
    /\ prog \in Programs
    /\ overflow_checks \in BOOLEAN
    /\ run = 1
    /\ pc = "start"
    /\ trace_rows = <<>>
    /\ result = "none"
    /\ sim = NoSim
    /\ first_run = NoFirstRun
    /\ gp = "simulate"
    /\ traces = NoTraces
    /\ caps = NoCaps
    /\ observed = <<>>
    /\ challenges = 0
    /\ proof_result = "none"

Next ==
    \/ SimulateEmpty
    \/ SimulateFirstRow
    \/ SimulateFirstRowFails
    \/ SimulateCycle
    \/ SimulateCycleFails
    \/ SimulateCyclePanics
    \/ SimulateLoopExit
    \/ ProofSimulationFails
    \/ ProofCommitTraces
    \/ ProofMemoryTracePanics
    \/ ProofObserveCap
    \/ ProofGetChallenges
    \/ SimulateAgain

Spec == Init /\ [][Next]_vars

\* The steps of simulate.
SimulateStep ==
    \/ SimulateEmpty
    \/ SimulateFirstRow
    \/ SimulateFirstRowFails
    \/ SimulateCycle
    \/ SimulateCycleFails
    \/ SimulateCyclePanics
    \/ SimulateLoopExit

\* simulate is straight-line code in one thread: a step that can be taken is taken.
FairSpec == Spec /\ WF_vars(SimulateStep)

(***************************************************************************)
(* Arithmetic programs: Lb R0; Lb R1; one Add/Sub/Mul; Halt, over sampled  *)
(* byte pairs in memory.                                                   *)
(***************************************************************************)

ByteSamples ==
    {0, 1, 2, 3, 5, 7, 10, 15, 16, 17, 31, 32, 64, 100, 127, 128, 129, 192,
     200, 240, 250, 253, 254, 255}

ArithPrograms ==
    {Program(0,
             CodeOf(<<Instr("Lb", 0, 64), Instr("Lb", 1, 65), Instr(op, a, b), Halt>>),
             [m \in {64, 65} |-> IF m = 64 THEN x ELSE y]) :
        op \in {"Add", "Sub", "Mul"}, a \in Registers, b \in Registers,
        x \in ByteSamples, y \in ByteSamples}

InitArith ==
    /\ prog \in ArithPrograms \cup EmptyPrograms \cup TopPrograms
                \cup SinglePrograms \cup {ScenarioC}
    /\ overflow_checks \in BOOLEAN
    /\ run = 1
    /\ pc = "start"
    /\ trace_rows = <<>>
    /\ result = "none"
    /\ sim = NoSim
    /\ first_run = NoFirstRun
    /\ gp = "simulate"
    /\ traces = NoTraces
    /\ caps = NoCaps
    /\ observed = <<>>
    /\ challenges = 0
    /\ proof_result = "none"

ArithSpec == InitArith /\ [][Next]_vars

(***************************************************************************)
(* Properties                                                              *)
(***************************************************************************)

\* The rows in existence: the local vector while simulate runs, the rows of
\* the returned simulation afterwards.
Rows == IF pc = "done" THEN sim.trace_rows ELSE trace_rows

Returned == pc = "done" /\ result = "Ok"

NonEmptyCode == DOMAIN prog.code # {}

IsStoreTo(row, addr) == row.instruction.op = "Sb" /\ row.instruction.b = addr

\* C1: a simulation returned successfully for a program with non-empty code
\* has halted = true in its last row and in no earlier row.
C1_OnlyLastRowHalted ==
    (Returned /\ NonEmptyCode) =>
        /\ Len(sim.trace_rows) >= 1
        /\ sim.trace_rows[Len(sim.trace_rows)].is_halted
        /\ \A k \in 1 .. (Len(sim.trace_rows) - 1) : ~sim.trace_rows[k].is_halted

C1_Witness ==
    /\ Returned
    /\ Len(sim.trace_rows) >= 5
    /\ sim.trace_rows[Len(sim.trace_rows)].is_halted

\* C2: simulate always terminates; when the rows reach past the cycle cap
\* with no halted row, it fails with CycleLimitExceeded and returns no
\* simulation, after at most MAX_CPU_CYCLES_ALLOWED + 1 rows.
C2_CycleLimitExceeded ==
    /\ (pc # "done") ~> (pc = "done")
    /\ [](Len(trace_rows) <= MAX_CPU_CYCLES_ALLOWED + 1)
    /\ [][(/\ pc = "loop"
           /\ Len(trace_rows) > MAX_CPU_CYCLES_ALLOWED
           /\ \A k \in 1 .. Len(trace_rows) : ~trace_rows[k].is_halted)
          => (pc' = "done" /\ result' = "CycleLimitExceeded" /\ sim' = NoSim)]_vars

C2_Witness ==
    /\ prog = ScenarioC
    /\ pc = "done"
    /\ result = "CycleLimitExceeded"
    /\ sim = NoSim

\* C3: a returned simulation has at most MAX_CPU_CYCLES_ALLOWED rows, and
\* simulate never holds more rows than that.
C3_RowsWithinCap ==
    /\ Len(trace_rows) <= MAX_CPU_CYCLES_ALLOWED
    /\ Returned => Len(sim.trace_rows) <= MAX_CPU_CYCLES_ALLOWED

\* C4: simulate ends in a returned simulation, InstructionNotFound or
\* CycleLimitExceeded, and in no other abort.
C4_Total ==
    pc = "done" => result \in {"Ok", "InstructionNotFound", "CycleLimitExceeded"}

\* C5: with non-empty code, simulate fails with InstructionNotFound and
\* returns nothing whenever the entry point, or the program counter of the
\* row to come (current + 1, or the target of a taken jump), has no
\* instruction in the code map.  Stated for rows below address 255, where
\* current + 1 is an address.
C5_NewProgramCounter(row) ==
    LET i == row.instruction
    IN  IF i.op = "Jz" /\ row.registers[i.a] = 0 THEN i.b
        ELSE IF i.op = "Jnz" /\ row.registers[i.a] # 0 THEN i.b
        ELSE row.program_counter + 1

C5_InstructionNotFound ==
    [][(/\ NonEmptyCode
        /\ \/ pc = "start" /\ prog.entry_point \notin DOMAIN prog.code
           \/ /\ pc = "loop"
              /\ Len(trace_rows) <= MAX_CPU_CYCLES_ALLOWED
              /\ ~trace_rows[Len(trace_rows)].is_halted
              /\ trace_rows[Len(trace_rows)].program_counter < 255
              /\ C5_NewProgramCounter(trace_rows[Len(trace_rows)]) \notin DOMAIN prog.code)
       => (/\ pc' = "done"
           /\ result' = "InstructionNotFound"
           /\ result' # "CycleLimitExceeded"
           /\ sim' = NoSim)]_vars

\* C6: for an empty code map simulate succeeds, whatever the entry point and
\* initial memory, with zero rows and the program's initial memory.
C6_EmptyProgram ==
    (pc = "done" /\ ~NonEmptyCode) =>
        /\ result = "Ok"
        /\ sim = [memory_init |-> prog.memory_init, trace_rows |-> <<>>]

C6_Witness ==
    /\ pc = "done"
    /\ ~NonEmptyCode
    /\ prog.entry_point = 255
    /\ prog.memory_init = [a \in {1} |-> 9]
    /\ result = "Ok"

\* C7: after a row with Sb(reg, addr) the next row's memory maps addr to the
\* value reg held (inserted if absent) and is unchanged elsewhere; the value
\* stays at addr in every later row until another Sb to addr; Scenario A
\* ends with memory[0x42] = 0x65.
C7_StoreByte ==
    /\ \A k \in 1 .. (Len(Rows) - 1) :
          Rows[k].instruction.op = "Sb" =>
              LET addr == Rows[k].instruction.b
                  cur  == Rows[k].memory_snapshot
                  nxt  == Rows[k + 1].memory_snapshot
              IN  /\ DOMAIN nxt = (DOMAIN cur) \cup {addr}
                  /\ nxt[addr] = Rows[k].registers[Rows[k].instruction.a]
                  /\ \A x \in (DOMAIN cur) \ {addr} : nxt[x] = cur[x]
    /\ \A k \in 1 .. Len(Rows) : \A j \in (k + 1) .. Len(Rows) :
          (/\ Rows[k].instruction.op = "Sb"
           /\ \A h \in (k + 1) .. (j - 1) : ~IsStoreTo(Rows[h], Rows[k].instruction.b))
          => /\ Rows[k].instruction.b \in DOMAIN Rows[j].memory_snapshot
             /\ Rows[j].memory_snapshot[Rows[k].instruction.b]
                    = Rows[k].registers[Rows[k].instruction.a]
    /\ (pc = "done" /\ prog = ScenarioA) =>
          /\ result = "Ok"
          /\ sim.trace_rows[Len(sim.trace_rows)].memory_snapshot[66] = 101

C7_Witness ==
    /\ Returned
    /\ prog = ScenarioA
    /\ 66 \notin DOMAIN sim.trace_rows[4].memory_snapshot
    /\ sim.trace_rows[4].instruction = Instr("Sb", 0, 66)
    /\ sim.trace_rows[5].memory_snapshot[66] = 101

\* C8: after a row with Lb(reg, addr) the next row's reg holds the row's
\* memory value at addr, and 0 when addr is absent from the initial memory
\* and was never stored to; a load never makes the step fail.
C8_LoadByte ==
    /\ [](\A k \in 1 .. (Len(Rows) - 1) :
            Rows[k].instruction.op = "Lb" =>
                LET addr == Rows[k].instruction.b
                    reg  == Rows[k].instruction.a
                IN  /\ addr \in DOMAIN Rows[k].memory_snapshot
                          => Rows[k + 1].registers[reg] = Rows[k].memory_snapshot[addr]
                    /\ (/\ addr \notin DOMAIN prog.memory_init
                        /\ \A h \in 1 .. (k - 1) : ~IsStoreTo(Rows[h], addr))
                          => Rows[k + 1].registers[reg] = 0)
    /\ [][(/\ pc = "loop"
           /\ Len(trace_rows) <= MAX_CPU_CYCLES_ALLOWED
           /\ trace_rows[Len(trace_rows)].instruction.op = "Lb"
           /\ (trace_rows[Len(trace_rows)].program_counter + 1) \in DOMAIN prog.code)
          => (/\ pc' = "loop"
              /\ result' = "none"
              /\ Len(trace_rows') = Len(trace_rows) + 1)]_vars

C8_Witness ==
    \E k \in 1 .. (Len(Rows) - 1) :
        /\ Rows[k].instruction = Instr("Lb", 0, 66)
        /\ 66 \notin DOMAIN Rows[k].memory_snapshot
        /\ Rows[k].registers[0] # 0
        /\ Rows[k + 1].registers[0] = 0

\* C9: after a row with Add/Sub/Mul(a, b) the next row's register a is
\* (a op b) modulo 256 of the row's register values, also when a and b are
\* the same register; every register of every row is a byte.
C9_Expected(op, x, y) ==
    CASE op = "Add" -> IF x + y >= 256 THEN x + y - 256 ELSE x + y
      [] op = "Sub" -> IF x >= y THEN x - y ELSE x + 256 - y
      [] op = "Mul" -> x * y - 256 * ((x * y) \div 256)

C9_WrappingArithmetic ==
    /\ \A k \in 1 .. Len(Rows) : \A r \in Registers : Rows[k].registers[r] \in U8
    /\ \A k \in 1 .. (Len(Rows) - 1) :
          Rows[k].instruction.op \in {"Add", "Sub", "Mul"} =>
              LET i == Rows[k].instruction
              IN  /\ Rows[k + 1].registers[i.a]
                        = C9_Expected(i.op, Rows[k].registers[i.a], Rows[k].registers[i.b])
                  /\ \A r \in Registers \ {i.a} :
                        Rows[k + 1].registers[r] = Rows[k].registers[r]

C9_Witness ==
    \E k \in 1 .. (Len(Rows) - 1) :
        /\ Rows[k].instruction = Instr("Add", 0, 1)
        /\ Rows[k].registers[0] = 250
        /\ Rows[k].registers[1] = 10
        /\ Rows[k + 1].registers[0] = 4

Committed == gp \in {"observe", "sample"} \/ (gp = "done" /\ proof_result = "Ok")

RealRows(table) == {k \in 1 .. Len(table) : table[k].is_exec = 1}

\* The opcode a CPU-table row shows in its one-hot block.
C11_RowOpcode(cpu_row) == CHOOSE c \in OpcodeColumns : cpu_row.opcode[c] = 1

C11_Matches(cpu_row) ==
    {k \in 1 .. Len(traces.pi) :
        /\ traces.pi[k].is_real = 1
        /\ traces.pi[k].pc = cpu_row.pc
        /\ traces.pi[k].opcode = C11_RowOpcode(cpu_row)}

C12_ByteMoved(row) ==
    IF row.instruction.op = "Lb"
    THEN LoadByte(row.memory_snapshot, row.instruction.b)
    ELSE row.registers[row.instruction.a]

C12_Ledger(row) ==
    {j \in 1 .. Len(traces.mem) :
        /\ traces.mem[j].addr = row.instruction.b
        /\ traces.mem[j].clk = row.clock}

\* C12: memory-integrity link.  For every Lb or Sb row of the simulation the
\* Memory table holds exactly one row with the row's address and clock, and
\* the value of that row is the byte the access moved.
C12_MemoryIntegrity ==
    Committed =>
        \A k \in 1 .. Len(sim.trace_rows) :
            IsMemOp(sim.trace_rows[k]) =>
                /\ Cardinality(C12_Ledger(sim.trace_rows[k])) = 1
                /\ \A j \in C12_Ledger(sim.trace_rows[k]) :
                      traces.mem[j].value = C12_ByteMoved(sim.trace_rows[k])

\* C13: Memory-table generation never fails on a successful simulation.
\* generate_proof on a program whose simulation succeeded completes with Ok,
\* and every Lb or Sb row has its ledger row, with value 0 when the address
\* is absent from the row's memory snapshot.
C13_MemoryTraceTotal ==
    (gp = "done" /\ Returned) =>
        /\ proof_result = "Ok"
        /\ \A k \in 1 .. Len(sim.trace_rows) :
              LET row == sim.trace_rows[k]
              IN  (IsMemOp(row) /\ row.instruction.b \notin DOMAIN row.memory_snapshot) =>
                      \E j \in 1 .. Len(traces.mem) :
                          /\ traces.mem[j].addr = row.instruction.b
                          /\ traces.mem[j].clk = row.clock
                          /\ traces.mem[j].value = 0

\* n is a power of two: it is at least 1 and has no odd divisor but 1.
C14_IsPowerOfTwo(n) == n >= 1 /\ \A d \in 2 .. n : d % 2 = 1 => n % d # 0

\* The rows the generators make for the simulation, before padding.
C14_CpuRealCount == Len(sim.trace_rows)

C14_MemoryRealCount ==
    Cardinality(DOMAIN sim.memory_init) + Len(SelectSeq(sim.trace_rows, IsMemOp))

C14_CpuRowIsZero(r) ==
    /\ r.clk = 0 /\ r.pc = 0 /\ r.r0 = 0 /\ r.r1 = 0 /\ r.loc = 0
    /\ \A c \in DOMAIN r.opcode : r.opcode[c] = 0
    /\ r.is_exec = 0

C14_MemoryRowIsZero(r) ==
    /\ r.addr = 0 /\ r.clk = 0 /\ r.value = 0
    /\ r.is_lb = 0 /\ r.is_sb = 0 /\ r.is_init = 0 /\ r.is_exec = 0

\* C14: padding law.  A generated CPU or Memory table has a power-of-two
\* number of rows, at least the number of real rows; the real rows come
\* first and have is-executed = 1, and every row after them is all-zero.
C14_PaddingLaw ==
    /\ traces.cpu # NoTrace =>
          /\ C14_IsPowerOfTwo(Len(traces.cpu))
          /\ Len(traces.cpu) >= C14_CpuRealCount
          /\ \A k \in 1 .. Len(traces.cpu) :
                IF k <= C14_CpuRealCount
                THEN traces.cpu[k].is_exec = 1
                ELSE C14_CpuRowIsZero(traces.cpu[k])
    /\ traces.mem # NoTrace =>
          /\ C14_IsPowerOfTwo(Len(traces.mem))
          /\ Len(traces.mem) >= C14_MemoryRealCount
          /\ \A k \in 1 .. Len(traces.mem) :
                IF k <= C14_MemoryRealCount
                THEN traces.mem[k].is_exec = 1
                ELSE C14_MemoryRowIsZero(traces.mem[k])

C14_Witness ==
    /\ Committed
    /\ C14_CpuRealCount = 5 /\ Len(traces.cpu) = 8
    /\ C14_MemoryRealCount = 5 /\ Len(traces.mem) = 8

\* The digests a transcript should hold after its first n observations.
C15_Expected(n) ==
    SubSeq(<<[merkle_cap_of |-> traces.pi], [merkle_cap_of |-> traces.cpu],
             [merkle_cap_of |-> traces.mem]>>, 1, n)

\* C15: the transcript observes the digests of the Program-Instructions, CPU
\* and Memory tables in this order and nothing else: at every moment it holds
\* a prefix of these three, and all three when generate_proof returns Ok.
C15_ObserveOrder ==
    /\ Len(observed) <= 3
    /\ observed = C15_Expected(Len(observed))
    /\ proof_result = "Ok" => Len(observed) = 3
    /\ observed # <<>> => Committed

C15_Witness ==
    /\ proof_result = "Ok"
    /\ observed = C15_Expected(3)
    /\ Len(traces.pi) = 8 /\ Len(traces.cpu) = 4 /\ Len(traces.mem) = 4

C16_SimulateFailed ==
    pc = "done" /\ result \in {"InstructionNotFound", "CycleLimitExceeded"}

\* C16: when simulate fails, generate_proof generates no table, makes no
\* commitment, observes no digest and samples no challenge, and its next
\* step is to return the error of simulate.
C16_FailFast ==
    /\ [](C16_SimulateFailed =>
             /\ gp \in {"simulate", "done"}
             /\ traces = NoTraces /\ caps = NoCaps
             /\ observed = <<>> /\ challenges = 0
             /\ gp = "done" => proof_result = result)
    /\ [][(C16_SimulateFailed /\ gp = "simulate")
             => (gp' = "done" /\ proof_result' = result)]_vars

C16_Witness ==
    /\ gp = "done"
    /\ proof_result = "CycleLimitExceeded"
    /\ traces = NoTraces /\ observed = <<>>

\* C17: challenges are sampled only after the three digests were observed,
\* and 2 x (configured number of challenges) of them are sampled, once.
C17_ChallengesAfterObserve ==
    /\ [](challenges # 0 =>
             /\ Len(observed) = 3
             /\ challenges = 2 * NumChallenges)
    /\ [][challenges' > challenges =>
             /\ challenges = 0
             /\ Len(observed) = 3
             /\ observed' = observed
             /\ challenges' = NumChallenges + NumChallenges]_vars

C17_Witness ==
    /\ proof_result = "Ok"
    /\ Len(observed) = 3
    /\ challenges = 4

\* The instruction variants that the simulator executes.
C18_Variants == ArithOps \cup JumpOps \cup MemOps \cup {"Halt"}

C18_SetColumns(cpu_row) == {c \in DOMAIN cpu_row.opcode : cpu_row.opcode[c] = 1}

\* The numbering: total on the variants, distinct per variant, filling
\* 0 .. variants - 1, with as many one-hot columns as variants.
C18_Numbering ==
    /\ {i.op : i \in Instructions} = C18_Variants
    /\ {OpcodeIndex(i) : i \in Instructions} = 0 .. (Cardinality(C18_Variants) - 1)
    /\ \A i, j \in Instructions : (OpcodeIndex(i) = OpcodeIndex(j)) <=> (i.op = j.op)
    /\ NUM_OPCODE_ONEHOT = Cardinality(C18_Variants)

C19_Clock ==
    /\ Rows # <<>> => Rows[1].clock = 1
    /\ \A k \in 2 .. Len(Rows) : Rows[k].clock = Rows[k - 1].clock + 1
    /\ \A k \in 1 .. Len(Rows) : Rows[k].clock = k /\ Rows[k].clock # 0

C19_Witness ==
    /\ Returned
    /\ Len(Rows) = 5
    /\ Rows[5].clock = 5

\* C20: immutable history.  A step of simulate leaves every row it already
\* holds unchanged (appending, or returning the rows it holds), a returned
\* simulation is not changed afterwards, and each row i+1 shows row i's
\* instruction applied to row i's registers and memory.
C20_ImmutableHistory ==
    /\ [][/\ (pc = "loop" /\ pc' = "loop") =>
                /\ Len(trace_rows') \in {Len(trace_rows), Len(trace_rows) + 1}
                /\ \A k \in 1 .. Len(trace_rows) : trace_rows'[k] = trace_rows[k]
          /\ (pc = "loop" /\ pc' = "done" /\ result' = "Ok") =>
                sim'.trace_rows = trace_rows
          /\ (pc = "done" /\ pc' = "done") => sim' = sim]_vars
    /\ [](\A k \in 1 .. (Len(Rows) - 1) :
             /\ Rows[k + 1].registers = NextRegisters(Rows[k])
             /\ Rows[k + 1].memory_snapshot = NextMemory(Rows[k]))

C20_Witness ==
    /\ Returned
    /\ \E k \in 1 .. (Len(Rows) - 1) :
          /\ Rows[k].instruction.op = "Sb"
          /\ Rows[k].instruction.b \notin DOMAIN Rows[k].memory_snapshot
          /\ Rows[k].instruction.b \in DOMAIN Rows[k + 1].memory_snapshot
    /\ \E k \in 1 .. (Len(Rows) - 1) : Rows[k + 1].registers # Rows[k].registers

(***************************************************************************)
(* Claims about the instructions, the first row and the table contents     *)
(***************************************************************************)

\* The program counter the claim names for the successor of a row.
C21_ExpectedProgramCounter(row) ==
    LET i == row.instruction
    IN  IF i.op = "Jz"
        THEN (IF row.registers[i.a] = 0 THEN i.b ELSE row.program_counter + 1)
        ELSE IF i.op = "Jnz"
        THEN (IF row.registers[i.a] # 0 THEN i.b ELSE row.program_counter + 1)
        ELSE row.program_counter + 1

\* C21: jumps.  The row after a Jz / Jnz row is at the target when the
\* register is zero / not zero in the current row and at current + 1
\* otherwise; the row after any other instruction is at current + 1.
C21_Jumps ==
    \A k \in 1 .. (Len(Rows) - 1) :
        Rows[k + 1].program_counter = C21_ExpectedProgramCounter(Rows[k])

\* C22: shifts.  After a Shl(reg, amt) / Shr(reg, amt) row the next row's
\* reg is the row's reg shifted by the value held in register amt modulo 8
\* (left: modulo 256); the step never fails because of the amount.
C22_Shifts ==
    /\ [](\A k \in 1 .. (Len(Rows) - 1) :
            LET i      == Rows[k].instruction
                value  == Rows[k].registers[i.a]
                amount == Rows[k].registers[i.b] % 8
            IN  /\ i.op = "Shl" => Rows[k + 1].registers[i.a] = (value * 2^amount) % 256
                /\ i.op = "Shr" => Rows[k + 1].registers[i.a] = value \div 2^amount)
    /\ [][(/\ pc = "loop"
           /\ Len(trace_rows) <= MAX_CPU_CYCLES_ALLOWED
           /\ trace_rows[Len(trace_rows)].instruction.op \in {"Shl", "Shr"}
           /\ (trace_rows[Len(trace_rows)].program_counter + 1) \in DOMAIN prog.code)
          => (/\ pc' = "loop"
              /\ result' = "none"
              /\ Len(trace_rows') = Len(trace_rows) + 1)]_vars

C22_Witness ==
    /\ Returned
    /\ \E k \in 1 .. (Len(Rows) - 1) :
          /\ Rows[k].instruction = Instr("Shl", 0, 1)
          /\ Rows[k].registers[0] = 250
          /\ Rows[k].registers[1] = 10
          /\ Rows[k + 1].registers[0] = 232
    /\ \E k \in 1 .. (Len(Rows) - 1) :
          /\ Rows[k].instruction.op = "Shr"
          /\ Rows[k].registers[Rows[k].instruction.b] >= 8

C23_EntryIsHalt ==
    /\ prog.entry_point \in DOMAIN prog.code
    /\ prog.code[prog.entry_point] = Halt

\* C23: in every row, the first included, halted is true iff the row's
\* instruction is Halt; no row follows a row whose instruction is Halt, and
\* a program whose entry-point instruction is Halt gives a successful
\* simulation of one row.
C23_HaltedIffHalt ==
    /\ \A k \in 1 .. Len(Rows) : Rows[k].is_halted <=> (Rows[k].instruction = Halt)
    /\ \A k \in 1 .. (Len(Rows) - 1) : Rows[k].instruction # Halt
    /\ (pc = "done" /\ C23_EntryIsHalt) => (result = "Ok" /\ Len(sim.trace_rows) = 1)

\* The rows of the simulation that access memory, by position.
C24_Accesses == {k \in 1 .. Len(sim.trace_rows) : sim.trace_rows[k].instruction.op \in {"Lb", "Sb"}}

C24_InitRows(a) == {j \in RealRows(traces.mem) : traces.mem[j].is_init = 1 /\ traces.mem[j].addr = a}

C24_AccessRows(row) == {j \in RealRows(traces.mem) : traces.mem[j].is_init = 0 /\ traces.mem[j].clk = row.clock}

\* C24: Memory-table contents.  The real rows are one row per address of the
\* initial memory (clock 0, the initial value, is-init only) and one row per
\* Lb / Sb row of the simulation (its clock, its address, the value its
\* snapshot holds at the address, is-lb or is-sb only), and nothing else.
C24_MemoryContents ==
    Committed =>
        /\ Cardinality(RealRows(traces.mem))
              = Cardinality(DOMAIN prog.memory_init) + Cardinality(C24_Accesses)
        /\ \A a \in DOMAIN prog.memory_init :
              /\ Cardinality(C24_InitRows(a)) = 1
              /\ \A j \in C24_InitRows(a) :
                    /\ traces.mem[j].clk = 0
                    /\ traces.mem[j].value = prog.memory_init[a]
                    /\ traces.mem[j].is_lb = 0 /\ traces.mem[j].is_sb = 0
        /\ \A k \in C24_Accesses :
              LET row == sim.trace_rows[k]
              IN  /\ Cardinality(C24_AccessRows(row)) = 1
                  /\ \A j \in C24_AccessRows(row) :
                        /\ traces.mem[j].addr = row.instruction.b
                        /\ traces.mem[j].value = row.memory_snapshot[row.instruction.b]
                        /\ traces.mem[j].is_lb = (IF row.instruction.op = "Lb" THEN 1 ELSE 0)
                        /\ traces.mem[j].is_sb = (IF row.instruction.op = "Sb" THEN 1 ELSE 0)
        /\ \A j \in RealRows(traces.mem) :
              traces.mem[j].is_init + traces.mem[j].is_lb + traces.mem[j].is_sb = 1

C24_Witness ==
    /\ Committed
    /\ Cardinality(DOMAIN prog.memory_init) = 2
    /\ \E j \in RealRows(traces.mem) : traces.mem[j].is_sb = 1
    /\ \E j \in RealRows(traces.mem) : traces.mem[j].is_lb = 1
    /\ Cardinality(C24_Accesses) < Len(sim.trace_rows) - 1

\* The store rows of the ledger to the address of row j with a smaller clock.
C25_EarlierStores(j) ==
    {h \in RealRows(traces.mem) :
        /\ traces.mem[h].is_sb = 1
        /\ traces.mem[h].addr = traces.mem[j].addr
        /\ traces.mem[h].clk < traces.mem[j].clk}

C25_Latest(rows) == CHOOSE h \in rows : \A g \in rows : traces.mem[g].clk <= traces.mem[h].clk

\* C25: memory ledger consistency.  The value of every load row is the value
\* of the latest earlier store row to its address; without such a store, the
\* value of the address's init row; without an init row, 0.
C25_LedgerConsistency ==
    Committed =>
        \A j \in RealRows(traces.mem) :
            traces.mem[j].is_lb = 1 =>
                IF C25_EarlierStores(j) # {}
                THEN traces.mem[j].value = traces.mem[C25_Latest(C25_EarlierStores(j))].value
                ELSE IF C24_InitRows(traces.mem[j].addr) # {}
                THEN \A h \in C24_InitRows(traces.mem[j].addr) :
                         traces.mem[j].value = traces.mem[h].value
                ELSE traces.mem[j].value = 0

\* C26: Memory-table order.  Every init row precedes every load/store row,
\* and the load/store rows are in strictly increasing clock order.
C26_MemoryOrder ==
    Committed =>
        \A j, h \in RealRows(traces.mem) :
            /\ (traces.mem[j].is_init = 1 /\ traces.mem[h].is_init = 0) =>
                  (j < h /\ traces.mem[j].clk = 0 /\ traces.mem[h].clk > 0)
            /\ (traces.mem[j].is_init = 0 /\ traces.mem[h].is_init = 0 /\ j < h) =>
                  traces.mem[j].clk < traces.mem[h].clk

C26_Witness ==
    /\ Committed
    /\ Cardinality({j \in RealRows(traces.mem) : traces.mem[j].is_init = 1}) = 2
    /\ Cardinality({j \in RealRows(traces.mem) : traces.mem[j].is_init = 0}) >= 4
    /\ \E j \in RealRows(traces.mem) : traces.mem[j].is_sb = 1 /\ traces.mem[j].clk = 4

\* C27: CPU-table contents.  The table has one real row per simulation row,
\* in the same order, with the row's clock, program counter and registers;
\* the operand-address column is the address operand of Lb, Sb, Jz and Jnz
\* (a jump taken or not) and 0 for every other instruction.
C27_CpuContents ==
    traces.cpu # NoTrace =>
        /\ Cardinality(RealRows(traces.cpu)) = Len(sim.trace_rows)
        /\ \A k \in 1 .. Len(sim.trace_rows) :
              LET row == sim.trace_rows[k]
              IN  /\ traces.cpu[k].is_exec = 1
                  /\ traces.cpu[k].clk = row.clock
                  /\ traces.cpu[k].pc = row.program_counter
                  /\ traces.cpu[k].r0 = row.registers[0]
                  /\ traces.cpu[k].r1 = row.registers[1]
                  /\ row.instruction.op \in {"Lb", "Sb", "Jz", "Jnz"}
                        => traces.cpu[k].loc = row.instruction.b
                  /\ row.instruction.op \in {"Add", "Sub", "Mul", "Div", "Shl", "Shr", "Halt"}
                        => traces.cpu[k].loc = 0

C27_Witness ==
    /\ Committed
    /\ \E k \in 1 .. (Len(sim.trace_rows) - 1) :
          /\ sim.trace_rows[k].instruction.op = "Jz"
          /\ traces.cpu[k].loc = 2
          /\ traces.cpu[k + 1].pc = traces.cpu[k].pc + 1
    /\ \E k \in 1 .. (Len(sim.trace_rows) - 1) :
          /\ sim.trace_rows[k].instruction.op = "Jnz"
          /\ traces.cpu[k + 1].pc = traces.cpu[k].loc
    /\ \E k \in 1 .. Len(sim.trace_rows) : traces.cpu[k].r0 # 0 /\ traces.cpu[k].r1 # 0

\* C28: the trace generators are deterministic.  The second generate_proof
\* run on the same program feeds its transcript the same three digests as
\* the first, whatever order the initial-memory map iterates in.
C28_GeneratorsDeterministic ==
    (run = 2 /\ Len(observed) = 3 /\ Len(first_run.observed) = 3) =>
        observed = first_run.observed

\* C29: initial state.  The first row is at the entry point with all
\* registers 0 and the program's initial memory as its snapshot; a returned
\* simulation records the program's initial memory, whatever the program
\* stored; simulate does not change the program.
C29_InitialState ==
    /\ [](Rows # <<>> =>
             /\ Rows[1].program_counter = prog.entry_point
             /\ \A r \in Registers : Rows[1].registers[r] = 0
             /\ Rows[1].memory_snapshot = prog.memory_init)
    /\ [](Returned => sim.memory_init = prog.memory_init)
    /\ [][prog' = prog]_vars

C29_Witness ==
    /\ Returned
    /\ NonEmptyCode
    /\ Rows[1].memory_snapshot = prog.memory_init
    /\ Rows[Len(Rows)].memory_snapshot # prog.memory_init
    /\ sim.memory_init = prog.memory_init

\* C30: per-instruction frame.  From a row to its successor only Sb changes
\* the memory snapshot, and only at its address (an Lb of an absent address
\* inserts nothing); Add, Sub, Mul, Div, Shl, Shr and Lb change at most
\* their first named register; Jz, Jnz, Sb and Halt change no register.
C30_Frame ==
    \A k \in 1 .. (Len(Rows) - 1) :
        LET i    == Rows[k].instruction
            row  == Rows[k]
            next == Rows[k + 1]
        IN  /\ i.op # "Sb" => next.memory_snapshot = row.memory_snapshot
            /\ i.op = "Sb" =>
                  /\ DOMAIN next.memory_snapshot = DOMAIN row.memory_snapshot \cup {i.b}
                  /\ \A a \in DOMAIN row.memory_snapshot \ {i.b} :
                        next.memory_snapshot[a] = row.memory_snapshot[a]
            /\ (i.op = "Lb" /\ i.b \notin DOMAIN row.memory_snapshot) =>
                  (i.b \notin DOMAIN next.memory_snapshot /\ next.registers[i.a] = 0)
            /\ i.op \in {"Add", "Sub", "Mul", "Div", "Shl", "Shr", "Lb"} =>
                  \A r \in Registers \ {i.a} : next.registers[r] = row.registers[r]
            /\ i.op \in {"Jz", "Jnz", "Sb", "Halt"} => next.registers = row.registers

C30_Witness ==
    /\ Returned
    /\ \E k \in 1 .. (Len(Rows) - 1) :
          /\ Rows[k].instruction.op = "Lb"
          /\ Rows[k].instruction.b \notin DOMAIN Rows[k].memory_snapshot
          /\ Rows[k].registers[Rows[k].instruction.a] # 0
    /\ \E k \in 1 .. (Len(Rows) - 1) :
          /\ Rows[k].instruction.op = "Sb"
          /\ Rows[k + 1].memory_snapshot # Rows[k].memory_snapshot
          /\ Rows[k].registers[0] # 0 /\ Rows[k].registers[1] # 0

====
